---- MODULE Spec2Model ----
(***************************************************************************)
(* The orchestration core of src/graph/workflow.py: the LangGraph state    *)
(* machine (create_workflow), its routing predicates, the state merge      *)
(* guard (_safe_merge), the ready-batch scan and ledger update of          *)
(* batch_processor_node, and the bounded repair loop.                      *)
(*                                                                         *)
(* Python values are modelled as follows.  A dict is a function from keys  *)
(* (strings) to values; the empty dict and the empty list are both << >>.  *)
(* None is the string "None" for string-valued fields and NonePlan for     *)
(* generation_plan.  A call that unpacks a dict into keywords next to explicit  *)
(* keywords raises TypeError when both give one key (GraphStateCall).      *)
(* The collaborators that are not part of the orchestration core (the LLM  *)
(* agents, the validator, the build tool) are nondeterministic choices     *)
(* over small sets of outputs.                                             *)
(***************************************************************************)
EXTENDS Integers, Sequences, FiniteSets, TLC

VARIABLES
    node,       \* the graph node about to run, or "END" / "ABORTED" / "FAILED"
    state,      \* the GraphState threaded through the graph
    error,      \* the exception that ended the run ("None" while none)
    merged_keys,  \* the keys of the mapping the latest _safe_merge call returned
    result_keys,  \* the control keys the agent result of that call carried
    prev,       \* the node that ran last ("None" before the first)
    repairs,    \* number of times debugger_node has been entered
    order,      \* batch ids in the order of their first processing
    reprocessed,  \* some batch was processed more than once
    partial,    \* some batch step got producer output lacking a declared path
    verdict,    \* what the validator last reported: "passed", "failed" or "None"
    validations,      \* number of validation passes that have reported
    reported_errors,  \* the error list the latest validation pass reported
    produced,   \* the paths under "files" in the result of the latest batch step
    written,    \* the paths the latest batch step passed to write_file
    builds,     \* number of times build_node has been entered
    raised,     \* a collaborator has raised inside a node
    legacy_calls,  \* number of content producer calls made by the legacy generator
    scanned,    \* the ready-batch scan has been executed
    tick,       \* parity of the number of node executions
    batch_events,  \* the batch events the latest batch_processor_node call emitted
    lifecycle,  \* the stages whose start event is unanswered, and whether an end or
                \* failed event came without one
    runs,       \* two runs in one process: each run's node and GraphState
    disk,       \* the run that last wrote each (project root, path) on disk
    wrote       \* the paths each of the two runs has written

\* the run's history, kept for the properties
hist == <<repairs, order, reprocessed, partial, verdict, validations, reported_errors,
         produced, written, builds, raised, legacy_calls, scanned>>

\* the variables of the two-run view
conc == <<runs, disk, wrote>>

vars == <<node, state, error, merged_keys, result_keys, prev, tick, batch_events, lifecycle,
          hist, conc>>

----------------------------------------------------------------------------
(* Program constants *)

MAX_RETRIES == 1

control_fields ==
    {"user_spec", "project_name", "retry_count", "project_root", "current_step",
     "validation_passed", "build_success", "final_artifact", "on_event", "test_mode"}

----------------------------------------------------------------------------
(* Bounds of the model *)

\* largest number of dependency edges in a generated plan
MaxEdges == 2

----------------------------------------------------------------------------
(* Python dict helpers *)

\* the dict b laid over the dict a: b's value where b has the key, else a's
DictUpdate(a, b) == b @@ a

\* {k: v for k, v in d.items() if k not in keys}  /  d.pop(k, None) for k in keys
DictWithout(d, keys) == [k \in (DOMAIN d) \ keys |-> d[k]]

\* {k: v for k, v in d.items() if k in keys}
DictRestrict(d, keys) == [k \in (DOMAIN d) \cap keys |-> d[k]]

\* d.get(k, dflt)
DictGet(d, k, dflt) == IF k \in DOMAIN d THEN d[k] ELSE dflt

Range(s) == {s[i] : i \in DOMAIN s}

\* truthiness of an optional string (None and "" are falsy)
TruthyStr(v) == v # "None" /\ v # ""

----------------------------------------------------------------------------
(* GraphState (schemas/models.py) *)

\* generation_plan = None; a plan without batches is replaced by None when adopted
NonePlan == [batches |-> << >>, generation_order |-> << >>]

Fields ==
    {"user_spec", "project_name", "on_event", "interpreted_spec", "files",
     "validation_passed", "validation_errors", "build_success", "build_logs",
     "final_artifact", "fix_attempted", "retry_count", "project_root",
     "error_message", "test_mode", "generation_plan", "pending_files",
     "generated_files", "file_progress", "generation_mode"}

GraphStateDefaults ==
    [ project_name      |-> "None",
      on_event          |-> "None",
      interpreted_spec  |-> "None",
      files             |-> << >>,
      validation_passed |-> FALSE,
      validation_errors |-> << >>,
      build_success     |-> FALSE,
      build_logs        |-> "None",
      final_artifact    |-> "None",
      fix_attempted     |-> FALSE,
      retry_count       |-> 0,
      project_root      |-> "None",
      error_message     |-> "None",
      test_mode         |-> FALSE,
      generation_plan   |-> NonePlan,
      pending_files     |-> << >>,
      generated_files   |-> << >>,
      file_progress     |-> <<0, 0>>,
      generation_mode   |-> "None" ]

\* GraphState constructor: declared fields take the keyword or the default, keys that
\* are no field of the model are ignored
GraphState(kw) ==
    [f \in Fields |-> IF f \in DOMAIN kw THEN kw[f] ELSE GraphStateDefaults[f]]

\* The outcome of a node: the state it returns, or the exception it raises
Returns(s) == [exc |-> "None", state |-> s]
\* an exception that the node swallows, returning the state it was given
Raises_swallowed(e, s) == [exc |-> "None", state |-> s]

Raises(e, s) == [exc |-> e, state |-> s]

\* GraphState called with m unpacked plus explicit keywords: a keyword given
\* twice is a TypeError
GraphStateCall(s, m, explicit) ==
    IF (DOMAIN m) \cap (DOMAIN explicit) # {}
    THEN Raises("TypeError", s)
    ELSE Returns(GraphState(DictUpdate(m, explicit)))

\* state.model_dump()
model_dump(s) == s

----------------------------------------------------------------------------
(* State merge guard *)

\* a merge that filters the state's keys but lets the result's keys through
safe_merge_unfiltered_result(s, agent_result) ==
    DictUpdate(DictWithout(model_dump(s), control_fields), agent_result)

\* a merge in which the state's value wins over the result's
safe_merge_state_wins(s, agent_result) ==
    DictUpdate(DictWithout(agent_result, control_fields),
               DictWithout(model_dump(s), control_fields))

_safe_merge(s, agent_result) ==
    DictUpdate(DictWithout(model_dump(s), control_fields),
               DictWithout(agent_result, control_fields))

----------------------------------------------------------------------------
(* Routing predicates of create_workflow *)

\* the retry test with the bound off by one
retry_allowed_off_by_one(s) == s.retry_count <= MAX_RETRIES

\* state.retry_count < MAX_RETRIES
retry_allowed(s) == s.retry_count < MAX_RETRIES

should_proceed_to_build(s) ==
    IF s.validation_passed THEN "build"
    ELSE IF retry_allowed(s) THEN "debugger"
    ELSE "abort"

\* a build edge that ends the run once the retries are used up, whatever the build reported
should_proceed_to_end_when_exhausted(s) ==
    IF retry_allowed(s) /\ ~s.build_success THEN "debugger" ELSE "end"

\* a build edge that sends every failed build to repair, without a budget
should_proceed_to_end_unbounded(s) ==
    IF s.build_success THEN "end" ELSE "debugger"

should_proceed_to_end(s) ==
    IF s.build_success THEN "end"
    ELSE IF retry_allowed(s) THEN "debugger"
    ELSE "abort"

\* has_more_batches that looks at pending_files before the plan
has_more_batches_pending_first(s) ==
    IF DOMAIN s.pending_files # {} THEN "continue" ELSE "done"

\* has_more_batches that looks only at the plan
has_more_batches_ignoring_pending(s) == "done"

has_more_batches(s) ==
    IF s.generation_plan = NonePlan THEN "done"
    ELSE IF DOMAIN s.pending_files # {} /\ Cardinality(DOMAIN s.pending_files) > 0
         THEN "continue"
    ELSE "done"

\* the node each conditional edge maps a routing result to
EdgeTarget(r) ==
    CASE r = "continue" -> "batch_processor"
      [] r = "done"     -> "static_validator"
      [] r = "build"    -> "build_contract"
      [] r = "debugger" -> "debugger"
      [] r = "abort"    -> "abort"
      [] r = "end"      -> "END"

\* an edge that sends the repaired state back to validation
debugger_edge_to_validator == "static_validator"

\* workflow.add_edge("debugger", "build_contract")
debugger_edge == "build_contract"

\* a graph in which the repair stage's successor follows the step its result
\* asked for: abort when the debugger gave up
NextNode_requested_step(n, s) ==
    CASE n = "spec_interpreter" -> "project_planner"
      [] n = "project_planner"  -> "file_planner"
      [] n = "file_planner"     -> "batch_processor"
      [] n = "batch_processor"  -> EdgeTarget(has_more_batches(s))
      [] n = "static_validator" -> EdgeTarget(should_proceed_to_build(s))
      [] n = "build_contract"   -> EdgeTarget(should_proceed_to_end(s))
      [] n = "debugger"         -> IF s.error_message = "Debugger failed"
                                   THEN "abort" ELSE debugger_edge
      [] n = "abort"            -> "ABORTED"

\* the node that runs after `n` returned state `s`
NextNode(n, s) ==
    CASE n = "spec_interpreter" -> "project_planner"
      [] n = "project_planner"  -> "file_planner"
      [] n = "file_planner"     -> "batch_processor"
      [] n = "batch_processor"  -> EdgeTarget(has_more_batches(s))
      [] n = "static_validator" -> EdgeTarget(should_proceed_to_build(s))
      [] n = "build_contract"   -> EdgeTarget(should_proceed_to_end(s))
      [] n = "debugger"         -> debugger_edge
      [] n = "abort"            -> "ABORTED"

----------------------------------------------------------------------------
(* Generation plans: the FilePlanner's output, which nothing validates *)

BatchIds == {"A", "B", "C"}
\* a dependency id that names no batch
UnknownId == "X"

\* (batch, dependency) pairs a plan may declare: forward and backward edges,
\* a self-dependency and a dependency on an id that names no batch
DepEdges ==
    { <<"B", "A">>, <<"A", "B">>, <<"C", "A">>, <<"C", "B">>, <<"A", "A">>,
      <<"C", UnknownId>> }
DepRelations == {E \in SUBSET DepEdges : Cardinality(E) <= MaxEdges}

\* file_paths per batch: non-empty and unique across the plan
DisjointLayout == [A |-> <<"a", "a2">>, B |-> <<"b">>, C |-> <<"c">>]
\* a path declared by two batches; a batch without paths
IrregularLayouts ==
    { [A |-> <<"a">>, B |-> <<"a">>, C |-> <<"c">>],
      [A |-> <<"a">>, B |-> << >>,   C |-> <<"c">>] }

\* generation_order: the declared layering, a non-topological one, one step,
\* one that omits batch C, one that names a batch id "Z" absent from batches
GenerationOrders ==
    { << <<"A", "B">>, <<"C">> >>,
      << <<"C">>, <<"A", "B">> >>,
      << <<"B", "A", "C">> >>,
      << <<"A", "B">> >>,
      << <<"A">>, <<"Z", "B">>, <<"C">> >> }

FileBatch(id, layout, E) ==
    [batch_id |-> id, file_paths |-> layout[id],
     dependencies |-> {e[2] : e \in {x \in E : x[1] = id}}]

GenerationPlan(l, E, o) ==
    [batches |-> <<FileBatch("A", l, E), FileBatch("B", l, E), FileBatch("C", l, E)>>,
     generation_order |-> o]

Plans ==
    { GenerationPlan(DisjointLayout, E, o) : E \in DepRelations, o \in GenerationOrders }
    \cup
    { GenerationPlan(l, E, << <<"A", "B">>, <<"C">> >>) :
        l \in IrregularLayouts, E \in {{}, {<<"C", "A">>, <<"C", "B">>}} }
    \cup
    \* batch B is absent from the order and declares a path that A declares too
    { GenerationPlan([A |-> <<"a">>, B |-> <<"a", "b">>, C |-> <<"c">>], {},
                     << <<"A">>, <<"C">> >>) }

\* no batch found: next(..., None)
NoBatch == [batch_id |-> "None", file_paths |-> << >>, dependencies |-> {}]

----------------------------------------------------------------------------
(* The ready-batch scan of batch_processor_node *)

\* next((b for b in batches if b.get("batch_id") == batch_id), None)
FindBatch(batches, batch_id) ==
    LET hits == {i \in DOMAIN batches : batches[i].batch_id = batch_id}
    IN  IF hits = {} THEN NoBatch
        ELSE batches[CHOOSE i \in hits : \A j \in hits : i <= j]

\* a dependency check that looks only at the first file of a dependency batch
deps_satisfied_first_file_only(batches, batch, completed) ==
    \A dep_id \in batch.dependencies :
        LET dep_batch == FindBatch(batches, dep_id)
        IN  (dep_batch # NoBatch /\ dep_batch.file_paths # << >>)
                => dep_batch.file_paths[1] \in completed

\* a dependency check in which an id that names no batch is never satisfied
deps_satisfied_unknown_blocks(batches, batch, completed) ==
    \A dep_id \in batch.dependencies :
        LET dep_batch == FindBatch(batches, dep_id)
        IN  /\ dep_batch # NoBatch
            /\ \A dep_file \in Range(dep_batch.file_paths) : dep_file \in completed

\* the dependency loop: every dependency id that names a batch has all of that
\* batch's file paths in completed; an id that names no batch is passed over
deps_satisfied(batches, batch, completed) ==
    \A dep_id \in batch.dependencies :
        LET dep_batch == FindBatch(batches, dep_id)
        IN  dep_batch # NoBatch
                => \A dep_file \in Range(dep_batch.file_paths) : dep_file \in completed

\* a pending test that asks whether anything at all is pending
has_pending_anywhere(batch, pending) == pending # {}

\* any(f in pending for f in batch.get("file_paths", []))
has_pending(batch, pending) == \E f \in Range(batch.file_paths) : f \in pending

\* an inner loop that gives up on a step at the first batch that has pending
\* files but unmet dependencies
RECURSIVE ScanStep_stop_at_blocked(_, _, _, _, _)
ScanStep_stop_at_blocked(batches, step, i, completed, pending) ==
    IF i > Len(step) THEN NoBatch
    ELSE LET batch == FindBatch(batches, step[i])
         IN  IF batch = NoBatch \/ ~has_pending(batch, pending)
             THEN ScanStep_stop_at_blocked(batches, step, i + 1, completed, pending)
             ELSE IF deps_satisfied(batches, batch, completed) THEN batch ELSE NoBatch

\* the inner loop over one step of generation_order, from position i
RECURSIVE ScanStep(_, _, _, _, _)
ScanStep(batches, step, i, completed, pending) ==
    IF i > Len(step) THEN NoBatch
    ELSE LET batch == FindBatch(batches, step[i])
         IN  IF batch = NoBatch
             THEN ScanStep(batches, step, i + 1, completed, pending)
             ELSE IF deps_satisfied(batches, batch, completed) /\ has_pending(batch, pending)
                  THEN batch
                  ELSE ScanStep(batches, step, i + 1, completed, pending)

\* the outer loop over generation_order, from step k
RECURSIVE ScanOrder(_, _, _, _, _)
ScanOrder(batches, generation_order, k, completed, pending) ==
    IF k > Len(generation_order) THEN NoBatch
    ELSE LET found == ScanStep(batches, generation_order[k], 1, completed, pending)
         IN  IF found # NoBatch THEN found
             ELSE ScanOrder(batches, generation_order, k + 1, completed, pending)

\* a scan that walks generation_order from its last step to its first
RECURSIVE ScanOrderReversed(_, _, _, _, _)
ScanOrderReversed(batches, generation_order, k, completed, pending) ==
    IF k > Len(generation_order) THEN NoBatch
    ELSE LET later == ScanOrderReversed(batches, generation_order, k + 1, completed, pending)
         IN  IF later # NoBatch THEN later
             ELSE ScanStep(batches, generation_order[k], 1, completed, pending)

\* batch_to_process for state s
ready_batch_last_step_first(s) ==
    ScanOrderReversed(s.generation_plan.batches, s.generation_plan.generation_order, 1,
                      DOMAIN s.generated_files, DOMAIN s.pending_files)

\* a scan that walks the batches in the order of the plan's batch list
ready_batch_over_batches(s) ==
    ScanStep(s.generation_plan.batches,
             [i \in DOMAIN s.generation_plan.batches |-> s.generation_plan.batches[i].batch_id],
             1, DOMAIN s.generated_files, DOMAIN s.pending_files)

ready_batch(s) ==
    ScanOrder(s.generation_plan.batches, s.generation_plan.generation_order, 1,
              DOMAIN s.generated_files, DOMAIN s.pending_files)

----------------------------------------------------------------------------
(* What the collaborators hand back *)

\* foreign values a stage result may carry under the control keys
AdvValue ==
    [ user_spec         |-> "evil spec",
      project_name      |-> "evil",
      retry_count       |-> 7,
      project_root      |-> "contracts/evil",
      current_step      |-> "abort",
      validation_passed |-> TRUE,
      build_success     |-> TRUE,
      final_artifact    |-> "evil.so",
      on_event          |-> "evil cb",
      test_mode         |-> TRUE ]

\* a stage result either leaves the control keys as it received them or sets
\* every one of them to a foreign value
AdvResults == {<< >>, AdvValue}

\* SpecInterpreter._extract_state_from_response
SpecInterpreter_result(dump, parsed, adv) ==
    DictUpdate(
        IF parsed
        THEN DictUpdate(dump, [interpreted_spec |-> "spec", project_name |-> "derived",
                               current_step |-> "project_planner"])
        ELSE DictUpdate(dump, [error_message |-> "Failed to parse spec interpretation",
                               current_step |-> "spec_interpreter"]),
        adv)

\* ProjectPlanner._format_agent_result
ProjectPlanner_result(dump, files_dict, adv) ==
    DictUpdate(
        IF DOMAIN files_dict # {}
        THEN DictUpdate(dump, [files |-> files_dict, current_step |-> "code_generator"])
        ELSE DictUpdate(dump, [error_message |-> "Failed to generate project files",
                               current_step |-> "project_planner"]),
        adv)

\* FilePlanner._format_agent_result (structured response); the text fallback
\* carries no generation_plan
FilePlanner_result(dump, plan, adv) ==
    DictUpdate(
        IF plan # NonePlan
        THEN DictUpdate(dump, [generation_plan |-> plan, current_step |-> "file_planner"])
        ELSE dump,
        adv)

\* CodeGenerator._format_agent_result
CodeGenerator_result(dump, files_dict, adv) ==
    DictUpdate(
        IF DOMAIN files_dict # {}
        THEN DictUpdate(dump, [files |-> DictUpdate(DictGet(dump, "files", << >>), files_dict),
                               current_step |-> "static_validator"])
        ELSE DictUpdate(dump, [error_message |-> "Failed to generate code",
                               current_step |-> "code_generator"]),
        adv)

\* Debugger._format_agent_result
Debugger_result(dump, patches, adv) ==
    DictUpdate(
        IF DOMAIN patches # {}
        THEN DictUpdate(dump, [files |-> DictUpdate(DictGet(dump, "files", << >>), patches),
                               debugger_analysis |-> "analysis",
                               debugger_patches_count |-> Cardinality(DOMAIN patches),
                               error_message |-> "None",
                               current_step |-> "static_validator"])
        ELSE DictUpdate(dump, [debugger_analysis |-> "analysis",
                               current_step |-> "abort",
                               error_message |-> "Debugger failed"]),
        adv)

\* the dict StaticValidator.run returns, as static_validator_node reads it
StaticValidator_result(passed, errors, adv) ==
    DictUpdate([validation_passed |-> passed, validation_errors |-> errors], adv)

\* Builder.verify_build and Builder.get_build_artifact
Builder_result(success, artifact) ==
    [success  |-> success,
     output   |-> IF success
                  THEN (IF artifact # "None" THEN "Build successful: artifact"
                        ELSE "Build successful (artifact location unknown)")
                  ELSE "anchor build output",
     artifact |-> artifact]

----------------------------------------------------------------------------
(* The nodes of the graph.  Each takes the state and what its collaborator   *)
(* handed back, and gives Returns(new state) or Raises(exception).           *)

\* a re-attachment that leaves project_root to the merge
Reattached_without_project_root(s) ==
    [user_spec |-> s.user_spec, retry_count |-> s.retry_count,
     on_event |-> s.on_event, test_mode |-> s.test_mode]

\* the keywords every node re-attaches after the merge
Reattached(s) ==
    [user_spec |-> s.user_spec, retry_count |-> s.retry_count,
     project_root |-> s.project_root, on_event |-> s.on_event,
     test_mode |-> s.test_mode]

_run_agent_node(s, result_state, agent_name) ==
    LET m == _safe_merge(s, result_state)
        new_retry_count == s.retry_count + (IF agent_name = "Debugger" THEN 1 ELSE 0)
    IN  GraphStateCall(s, m,
            [user_spec    |-> s.user_spec,
             retry_count  |-> new_retry_count,
             project_root |-> IF TruthyStr(s.project_root) THEN s.project_root
                              ELSE DictGet(result_state, "project_root", "None"),
             on_event     |-> s.on_event,
             test_mode    |-> s.test_mode])

spec_interpreter_node(s, result_state) ==
    _run_agent_node(s, result_state, "Spec Interpreter")

\* str(Path.cwd() / "contracts" / project_name)
ProjectRoot(project_name) ==
    CASE project_name = "my_contract" -> "contracts/my_contract"
      [] project_name = "p1"          -> "contracts/p1"
      [] OTHER                        -> "contracts/other"

project_planner_node(s, result_state) ==
    LET project_name == IF TruthyStr(s.project_name) THEN s.project_name ELSE "my_contract"
        project_root == ProjectRoot(project_name)
        m == _safe_merge(s, result_state)
    IN  GraphStateCall(s, m,
            [user_spec    |-> s.user_spec,
             retry_count  |-> s.retry_count,
             project_name |-> project_name,
             project_root |-> project_root,
             on_event     |-> s.on_event,
             test_mode    |-> s.test_mode])

\* sum(len(batch.get("file_paths", [])) for batch in batches), from index i
RECURSIVE TotalFiles(_, _)
TotalFiles(batches, i) ==
    IF i > Len(batches) THEN 0
    ELSE Len(batches[i].file_paths) + TotalFiles(batches, i + 1)

LedgerKeys == {"generation_plan", "pending_files", "generated_files", "file_progress"}

\* plan adoption that marks only the first batch's paths as pending
file_planner_node_first_batch_pending(s, result_state) ==
    LET plan_dict == DictGet(result_state, "generation_plan", NonePlan)
        m == DictWithout(_safe_merge(s, result_state), LedgerKeys)
    IN  IF plan_dict # NonePlan /\ plan_dict.batches # << >>
        THEN GraphStateCall(s, m,
                 DictUpdate(Reattached(s),
                     [generation_plan |-> plan_dict,
                      pending_files   |-> [f \in Range(plan_dict.batches[1].file_paths) |-> ""],
                      generated_files |-> << >>,
                      file_progress   |-> <<0, TotalFiles(plan_dict.batches, 1)>>]))
        ELSE GraphStateCall(s, m,
                 DictUpdate(Reattached(s), [generation_plan |-> NonePlan]))

file_planner_node(s, result_state) ==
    LET plan_dict == DictGet(result_state, "generation_plan", NonePlan)
        m == DictWithout(_safe_merge(s, result_state), LedgerKeys)
    IN  IF plan_dict # NonePlan /\ plan_dict.batches # << >>
        THEN LET batches == plan_dict.batches
                 all_files == UNION {Range(batches[i].file_paths) : i \in DOMAIN batches}
                 total_files == TotalFiles(batches, 1)
             IN  GraphStateCall(s, m,
                     DictUpdate(Reattached(s),
                         [generation_plan |-> plan_dict,
                          pending_files   |-> [f \in all_files |-> ""],
                          generated_files |-> << >>,
                          file_progress   |-> <<0, total_files>>]))
        ELSE GraphStateCall(s, m,
                 DictUpdate(Reattached(s), [generation_plan |-> NonePlan]))

_legacy_code_generator_node(s, result_state) ==
    LET m == DictWithout(_safe_merge(s, result_state),
                         {"pending_files", "generated_files", "file_progress"})
    IN  GraphStateCall(s, m, Reattached(s))

\* the no-ready-batch branch as a plain return of the state with pending_files emptied
no_ready_batch_returns_state(s) ==
    Returns([s EXCEPT !.pending_files = << >>])

\* the no-ready-batch branch: the state dump and the explicit keywords in one call
no_ready_batch(s) ==
    GraphStateCall(s, model_dump(s),
        DictUpdate([pending_files |-> << >>], Reattached(s)))

\* agent.run(batch_state) for the batch being processed
batch_result_state(s, batch_to_process, files_dict, adv) ==
    CodeGenerator_result(DictUpdate(model_dump(s), [current_batch |-> batch_to_process]),
                         files_dict, adv)

\* every returned file kept, declared by the batch or not
new_files_unfiltered(all_new_files, batch_files) == all_new_files

\* {path: content for path, content in all_new_files.items() if path in batch_files}
new_files_of_batch(all_new_files, batch_files) == DictRestrict(all_new_files, batch_files)

\* a ledger that keeps only the files of the latest batch
updated_generated_latest_only(generated_files, new_files) == new_files

\* updated_generated: the new files laid over state.generated_files
updated_generated_files(generated_files, new_files) == DictUpdate(generated_files, new_files)

\* updated_pending: state.pending_files without the keys of new_files
\* a ledger update that adds the new files to generated_files and leaves
\* pending_files as it was
updated_pending_files_not_applied(pending_files, new_files) == pending_files

updated_pending_files(pending_files, new_files) == DictWithout(pending_files, DOMAIN new_files)

\* a progress count that adds the ledger size to the previous count
file_progress_accumulated(updated_generated, file_progress) ==
    <<file_progress[1] + Cardinality(DOMAIN updated_generated), file_progress[2]>>

\* progress = (len(updated_generated), state.file_progress[1])
updated_file_progress(updated_generated, file_progress) ==
    <<Cardinality(DOMAIN updated_generated), file_progress[2]>>

\* the paths batch_processor_node passes to file_ops.write_file: every path of
\* new_files, when there is a project root
written_files(s, batch_to_process, result_state) ==
    IF TruthyStr(s.project_root)
    THEN DOMAIN new_files_of_batch(DictGet(result_state, "files", << >>),
                                   Range(batch_to_process.file_paths))
    ELSE {}

\* the ledger update of batch_processor_node for the batch it selected
process_batch(s, batch_to_process, result_state) ==
    LET all_new_files == DictGet(result_state, "files", << >>)
        batch_files == Range(batch_to_process.file_paths)
        new_files == new_files_of_batch(all_new_files, batch_files)
        updated_generated == updated_generated_files(s.generated_files, new_files)
        updated_pending == updated_pending_files(s.pending_files, new_files)
        progress == updated_file_progress(updated_generated, s.file_progress)
        m == DictWithout(_safe_merge(s, result_state),
                         {"generated_files", "pending_files", "file_progress"})
    IN  GraphStateCall(s, m,
            DictUpdate([generated_files |-> updated_generated,
                        pending_files   |-> updated_pending,
                        file_progress   |-> progress],
                       Reattached(s)))

\* not plan_dict or not plan_dict.get("batches")
LegacyMode(s) == s.generation_plan = NonePlan \/ s.generation_plan.batches = << >>

batch_processor_node(s, files_dict, adv) ==
    IF LegacyMode(s)
    THEN _legacy_code_generator_node(s, CodeGenerator_result(model_dump(s), files_dict, adv))
    ELSE LET batch_to_process == ready_batch(s)
         IN  IF batch_to_process = NoBatch
             THEN no_ready_batch(s)
             ELSE process_batch(s, batch_to_process,
                                batch_result_state(s, batch_to_process, files_dict, adv))

\* a validate stage that drops validation_errors along with the control fields
static_validator_node_dropping_errors(s, result) ==
    IF ~TruthyStr(s.project_root)
    THEN Raises("ValueError", s)
    ELSE GraphStateCall(s, DictWithout(_safe_merge(s, result), {"validation_errors"}),
                        Reattached(s))

static_validator_node(s, result) ==
    IF ~TruthyStr(s.project_root)
    THEN Raises("ValueError", s)
    ELSE GraphStateCall(s, _safe_merge(s, result), Reattached(s))

build_node(s, built) ==
    IF ~TruthyStr(s.project_root)
    THEN Raises("ValueError", s)
    ELSE LET m == DictWithout(_safe_merge(s, << >>), {"build_logs"})
         IN  GraphStateCall(s, m,
                 [user_spec      |-> s.user_spec,
                  retry_count    |-> s.retry_count,
                  project_root   |-> s.project_root,
                  build_success  |-> built.success,
                  build_logs     |-> built.output,
                  final_artifact |-> built.artifact,
                  on_event       |-> s.on_event,
                  test_mode      |-> s.test_mode])

\* a repair stage that re-attaches retry_count as it found it
debugger_node_without_increment(s, result_state) ==
    GraphStateCall(s, _safe_merge(s, result_state), Reattached(s))

debugger_node(s, result_state) ==
    GraphStateCall(s, _safe_merge(s, result_state),
        [user_spec    |-> s.user_spec,
         retry_count  |-> s.retry_count + 1,
         project_root |-> s.project_root,
         on_event     |-> s.on_event,
         test_mode    |-> s.test_mode])

\* an abort stage that hands back a fresh state keeping only the run's inputs
abort_node_fresh_state(s) ==
    Returns(GraphState([user_spec |-> s.user_spec, project_name |-> s.project_name,
                        on_event |-> s.on_event, test_mode |-> s.test_mode]))

abort_node(s) == Returns(s)

----------------------------------------------------------------------------
(* Inputs of a run and outputs of the collaborators *)

UserSpecs == {"a counter program"}
ProjectNames == {"None", "p1"}

\* a path the content producer may return although the batch did not declare it
ExtraPaths == {"b"}

ProjectFilesOutputs == {<< >>, [f \in {"a"} |-> "p"]}
LegacyOutputs == {<< >>, [f \in {"lib.rs"} |-> "x"]}
PatchOutputs == {<< >>, [f \in {"a"} |-> "fix"]}
Artifacts == {"None", "target/deploy/program.so"}
\* the caller's observer: none, or a callback
Observers == {"None", "cb"}

\* the error lists a failing validation pass may report
ValidationErrorLists == { <<"error[E0425]">>, <<"warning: unused", "error[E0599]">> }

\* what the content producer may return for a batch: any of its declared paths,
\* with or without an undeclared one
BatchOutputs(batch) ==
    { [f \in S |-> "x"] : S \in SUBSET (Range(batch.file_paths) \cup ExtraPaths) }

----------------------------------------------------------------------------
(* The run: run_workflow drives the compiled graph one node at a time *)

Init ==
    /\ node = "spec_interpreter"
    /\ \E u \in UserSpecs, pn \in ProjectNames, on_event \in Observers :
          state = GraphState([user_spec |-> u, test_mode |-> FALSE,
                              project_name |-> pn, on_event |-> on_event])
    \* run_workflow calls on_event("workflow:start") before the graph runs
    /\ lifecycle = [open  |-> IF state.on_event = "None" THEN {} ELSE {"workflow"},
                    extra |-> FALSE]
    /\ error = "None"
    /\ merged_keys = {}
    /\ result_keys = {}
    /\ prev = "None"
    /\ repairs = 0
    /\ order = << >>
    /\ reprocessed = FALSE
    /\ partial = FALSE
    /\ verdict = "None"
    /\ validations = 0
    /\ reported_errors = << >>
    /\ produced = {}
    /\ written = {}
    /\ builds = 0
    /\ raised = FALSE
    /\ legacy_calls = 0
    /\ scanned = FALSE
    /\ tick = 0
    /\ batch_events = << >>
    /\ runs = << >>
    /\ disk = << >>
    /\ wrote = << >>

\* batch events that leave a started batch without its end
BatchEvents_end_only_with_files(s, out) ==
    IF LegacyMode(s) \/ s.on_event = "None" \/ ready_batch(s) = NoBatch
       \/ out.exc = "ObserverFailure"
    THEN << >>
    ELSE LET id == ready_batch(s).batch_id
         IN  <<  <<"batch:start", id>> >>
             \o (IF out.exc = "None" /\ DOMAIN out.state.generated_files # DOMAIN s.generated_files
                 THEN << <<"batch:end", id>> >> ELSE << >>)

\* the batch events one call of batch_processor_node on s emits, given its
\* outcome: batch:start for the selected batch, then batch:end once the ledger
\* values are computed, or the failure event of the except clause
BatchEvents(s, out) ==
    IF LegacyMode(s) \/ s.on_event = "None" \/ ready_batch(s) = NoBatch
       \/ out.exc = "ObserverFailure"
    THEN << >>
    ELSE LET id == ready_batch(s).batch_id
         IN  <<  <<"batch:start", id>> >>
             \o (IF out.exc \in {"None", "TypeError"} THEN << <<"batch:end", id>> >> ELSE << >>)
             \o (IF out.exc # "None" THEN << <<"agent:Code Generator:failed", id>> >>
                 ELSE << >>)

\* the name under which node n reports its lifecycle events
StageName(n) ==
    CASE n = "spec_interpreter" -> "Spec Interpreter"
      [] n = "project_planner"  -> "Project Planner"
      [] n = "file_planner"     -> "File Planner"
      [] n = "batch_processor"  -> "Code Generator"
      [] n = "static_validator" -> "validation"
      [] n = "build_contract"   -> "build"
      [] n = "debugger"         -> "Debugger"
      [] OTHER                  -> "None"

\* the lifecycle events one call of node n on s delivers, given its outcome, as
\* (stage, kind) pairs: the start event before the try block, the end event
\* (for validation and build the verdict event, success or failed) once the
\* collaborator has returned, and the failed event where the except clause
\* has one. A TypeError comes from the GraphState call, after the end event.
StageEvents(n, s, out) ==
    IF s.on_event = "None" \/ n = "abort" \/ out.exc = "ObserverFailure"
    THEN << >>
    ELSE LET stage   == StageName(n)
             start   == << <<stage, "start">> >>
             end     == IF out.exc \in {"None", "TypeError"}
                        THEN << <<stage, "end">> >> ELSE << >>
             judged  == IF out.exc \in {"None", "TypeError"}
                        THEN << <<stage, "verdict">> >> ELSE << >>
             failed  == IF out.exc # "None" THEN << <<stage, "failed">> >> ELSE << >>
         IN  CASE n = "project_planner" -> start \o end
               [] n \in {"static_validator", "build_contract"} -> start \o judged
               [] n = "batch_processor" /\ ~LegacyMode(s) ->
                     IF ready_batch(s) = NoBatch
                     THEN start \o end \o failed
                     ELSE start \o failed
               [] OTHER -> start \o end \o failed

\* run_workflow's event once the graph call is over: workflow:end when the
\* graph returned, workflow:failed when it raised
WorkflowEvents(n, s, out) ==
    IF s.on_event = "None" \/ out.exc = "ObserverFailure"
    THEN << >>
    ELSE IF out.exc # "None"
         THEN << <<"workflow", "failed">> >>
         ELSE IF NextNode(n, out.state) \in {"END", "ABORTED"}
              THEN << <<"workflow", "end">> >>
              ELSE << >>

\* the record of unanswered start events after the events from index i on
RECURSIVE Deliver(_, _, _)
Deliver(life, events, i) ==
    IF i > Len(events) THEN life
    ELSE LET stage == events[i][1]
             kind  == events[i][2]
         IN  Deliver(
                IF kind = "start"
                THEN [life EXCEPT !.open = @ \cup {stage}]
                ELSE IF stage \in life.open
                     THEN [life EXCEPT !.open = @ \ {stage}]
                     ELSE [life EXCEPT !.extra = TRUE],
                events, i + 1)

\* the node n has run with outcome out: the graph stores the returned state and
\* follows the edge out of n, or the exception ends the run
Advance(n, out) ==
    /\ prev' = n
    /\ tick' = 1 - tick
    /\ batch_events' = IF n = "batch_processor" THEN BatchEvents(state, out) ELSE batch_events
    /\ lifecycle' = Deliver(lifecycle, StageEvents(n, state, out) \o WorkflowEvents(n, state, out), 1)
    /\ IF out.exc # "None"
       THEN /\ node' = "FAILED"
            /\ error' = out.exc
            /\ state' = state
       ELSE /\ node' = NextNode(n, out.state)
            /\ error' = error
            /\ state' = out.state
    /\ UNCHANGED conc

\* the node called _safe_merge(s, agent_result)
Merged(s, agent_result) ==
    /\ merged_keys' = DOMAIN _safe_merge(s, agent_result)
    /\ result_keys' = (DOMAIN agent_result) \cap control_fields

SpecInterpreterStep ==
    /\ node = "spec_interpreter"
    /\ \E parsed \in BOOLEAN, adv \in AdvResults :
          LET result_state == SpecInterpreter_result(model_dump(state), parsed, adv)
          IN  /\ Advance("spec_interpreter", spec_interpreter_node(state, result_state))
              /\ Merged(state, result_state)
    /\ UNCHANGED hist

ProjectPlannerStep ==
    /\ node = "project_planner"
    /\ \E files_dict \in ProjectFilesOutputs, adv \in AdvResults :
          LET result_state == ProjectPlanner_result(model_dump(state), files_dict, adv)
          IN  /\ Advance("project_planner", project_planner_node(state, result_state))
              /\ Merged(state, result_state)
    /\ UNCHANGED hist

FilePlannerStep ==
    /\ node = "file_planner"
    /\ \E plan \in Plans \cup {NonePlan}, adv \in AdvResults :
          LET result_state == FilePlanner_result(model_dump(state), plan, adv)
          IN  /\ Advance("file_planner", file_planner_node(state, result_state))
              /\ Merged(state, result_state)
    /\ UNCHANGED hist

\* batch_processor_node in legacy mode: one call of the content producer
LegacyGenerateStep ==
    /\ node = "batch_processor"
    /\ LegacyMode(state)
    /\ \E files_dict \in LegacyOutputs, adv \in AdvResults :
          /\ Advance("batch_processor", batch_processor_node(state, files_dict, adv))
          /\ Merged(state, CodeGenerator_result(model_dump(state), files_dict, adv))
    /\ legacy_calls' = legacy_calls + 1
    /\ UNCHANGED <<repairs, order, reprocessed, partial, verdict, validations,
                   reported_errors, produced, written, builds, raised, scanned>>

\* batch_processor_node with a plan and a ready batch: the batch is generated
\* and the ledger updated
BatchStep ==
    /\ node = "batch_processor"
    /\ ~LegacyMode(state)
    /\ ready_batch(state) # NoBatch
    /\ LET batch_to_process == ready_batch(state)
           id == batch_to_process.batch_id
       IN  /\ \E files_dict \in BatchOutputs(batch_to_process), adv \in AdvResults :
                 /\ Advance("batch_processor", batch_processor_node(state, files_dict, adv))
                 /\ Merged(state, batch_result_state(state, batch_to_process, files_dict, adv))
                 /\ partial' = (partial \/ ~(Range(batch_to_process.file_paths) \subseteq
                        DOMAIN DictGet(batch_result_state(state, batch_to_process, files_dict, adv),
                                       "files", << >>)))
                 /\ produced' =
                        DOMAIN DictGet(batch_result_state(state, batch_to_process, files_dict, adv),
                                       "files", << >>)
                 /\ written' =
                        written_files(state, batch_to_process,
                            batch_result_state(state, batch_to_process, files_dict, adv))
           /\ order' = IF id \in Range(order) THEN order ELSE Append(order, id)
           /\ reprocessed' = (reprocessed \/ id \in Range(order))
    /\ scanned' = TRUE
    /\ UNCHANGED <<repairs, verdict, validations, reported_errors, builds, raised,
                   legacy_calls>>

\* batch_processor_node with a plan and no ready batch
NoReadyBatchStep ==
    /\ node = "batch_processor"
    /\ ~LegacyMode(state)
    /\ ready_batch(state) = NoBatch
    /\ Advance("batch_processor", batch_processor_node(state, << >>, << >>))
    /\ scanned' = TRUE
    /\ UNCHANGED <<merged_keys, result_keys, repairs, order, reprocessed, partial, verdict,
                   validations, reported_errors, produced, written, builds, raised, legacy_calls>>

StaticValidatorStep ==
    /\ node = "static_validator"
    /\ \E passed \in BOOLEAN, adv \in AdvResults :
          \E errors \in (IF passed THEN {<< >>} ELSE ValidationErrorLists) :
             LET result == StaticValidator_result(passed, errors, adv)
             IN  /\ Advance("static_validator", static_validator_node(state, result))
                 /\ Merged(state, result)
                 /\ verdict' = IF passed THEN "passed" ELSE "failed"
                 /\ validations' = validations + 1
                 /\ reported_errors' = errors
    /\ UNCHANGED <<repairs, order, reprocessed, partial, produced, written, builds, raised,
                   legacy_calls, scanned>>

BuildStep ==
    /\ node = "build_contract"
    /\ \E success \in BOOLEAN, artifact \in Artifacts :
          Advance("build_contract", build_node(state, Builder_result(success, artifact)))
    /\ Merged(state, << >>)
    /\ builds' = builds + 1
    /\ UNCHANGED <<repairs, order, reprocessed, partial, verdict, validations,
                   reported_errors, produced, written, raised, legacy_calls, scanned>>

DebuggerStep ==
    /\ node = "debugger"
    /\ \E patches \in PatchOutputs, adv \in AdvResults :
          LET result_state == Debugger_result(model_dump(state), patches, adv)
          IN  /\ Advance("debugger", debugger_node(state, result_state))
              /\ Merged(state, result_state)
    /\ repairs' = repairs + 1
    /\ UNCHANGED <<order, reprocessed, partial, verdict, validations, reported_errors,
                   produced, written, builds, raised, legacy_calls, scanned>>

AbortStep ==
    /\ node = "abort"
    /\ Advance("abort", abort_node(state))
    /\ UNCHANGED <<merged_keys, result_keys, hist>>

\* a collaborator (agent.run, validator.run, the build tool) raises: the node
\* re-raises and run_workflow propagates the exception
CollaboratorRaises ==
    /\ node \in {"spec_interpreter", "project_planner", "file_planner",
                 "static_validator", "build_contract", "debugger"}
          \/ (node = "batch_processor" /\ (LegacyMode(state) \/ ready_batch(state) # NoBatch))
    /\ Advance(node, Raises("CollaboratorFailure", state))
    /\ repairs' = IF node = "debugger" THEN repairs + 1 ELSE repairs
    /\ builds' = IF node = "build_contract" THEN builds + 1 ELSE builds
    /\ raised' = TRUE
    /\ legacy_calls' = IF node = "batch_processor" /\ LegacyMode(state)
                       THEN legacy_calls + 1 ELSE legacy_calls
    /\ scanned' = (scanned \/ (node = "batch_processor" /\ ~LegacyMode(state)))
    /\ UNCHANGED <<merged_keys, result_keys, order, reprocessed, partial, verdict,
                   validations, reported_errors, produced, written>>

\* the observer raises when a node calls it: the call is outside the node's
\* try block or inside it, where the except clause re-raises
ObserverRaises ==
    /\ node \in {"spec_interpreter", "project_planner", "file_planner", "batch_processor",
                 "static_validator", "build_contract", "debugger"}
    /\ state.on_event # "None"
    /\ Advance(node, Raises("ObserverFailure", state))
    /\ repairs' = IF node = "debugger" THEN repairs + 1 ELSE repairs
    /\ builds' = IF node = "build_contract" THEN builds + 1 ELSE builds
    \* in a batch step the observer is called at batch:start, after each file
    \* written and at batch:end: the files written before the call that raised
    /\ written' \in
          IF node = "batch_processor" /\ ~LegacyMode(state) /\ ready_batch(state) # NoBatch
          THEN UNION { SUBSET written_files(state, ready_batch(state),
                                  batch_result_state(state, ready_batch(state), files_dict, << >>)) :
                       files_dict \in BatchOutputs(ready_batch(state)) }
          ELSE {written}
    /\ UNCHANGED <<merged_keys, result_keys, order, reprocessed, partial, verdict,
                   validations, reported_errors, produced, raised, legacy_calls, scanned>>

Next ==
    \/ SpecInterpreterStep
    \/ ProjectPlannerStep
    \/ FilePlannerStep
    \/ LegacyGenerateStep
    \/ BatchStep
    \/ NoReadyBatchStep
    \/ StaticValidatorStep
    \/ BuildStep
    \/ DebuggerStep
    \/ AbortStep
    \/ CollaboratorRaises
    \/ ObserverRaises

Spec == Init /\ [][Next]_vars

Terminal == {"END", "ABORTED", "FAILED"}

\* one step of the graph runner seen from outside the nodes: a node is scheduled
\* and runs, which flips tick.  Every Next step is such a step, and [Next]_vars
\* allows no other step that changes tick.
Scheduled == node \notin Terminal /\ tick' = 1 - tick

\* every node the graph schedules does run
FairSpec == Spec /\ WF_tick(Scheduled)

----------------------------------------------------------------------------
(* Two runs of run_workflow in one process, their nodes interleaved.  Each run  *)
(* has the GraphState run_workflow built for it; what they share is the disk.   *)

RunIds == {1, 2}

\* the user_spec of each run
RunSpecs == <<"a counter program", "a token vault">>

\* the plans the file planner returns in the two-run view: none, or three
\* independent batches
ConcPlans == {NonePlan, GenerationPlan(DisjointLayout, {}, << <<"A", "B">>, <<"C">> >>)}

ConcurrentInit ==
    /\ node = "END"
    /\ state = GraphState([user_spec |-> "None"])
    /\ error = "None"
    /\ merged_keys = {}
    /\ result_keys = {}
    /\ prev = "None"
    /\ tick = 0
    /\ batch_events = << >>
    /\ lifecycle = [open |-> {}, extra |-> FALSE]
    /\ repairs = 0
    /\ order = << >>
    /\ reprocessed = FALSE
    /\ partial = FALSE
    /\ verdict = "None"
    /\ validations = 0
    /\ reported_errors = << >>
    /\ produced = {}
    /\ written = {}
    /\ builds = 0
    /\ raised = FALSE
    /\ legacy_calls = 0
    /\ scanned = FALSE
    /\ \E names \in [RunIds -> ProjectNames] :
          runs = [r \in RunIds |->
                    [node  |-> "spec_interpreter",
                     state |-> GraphState([user_spec |-> RunSpecs[r], test_mode |-> FALSE,
                                           project_name |-> names[r], on_event |-> "None"])]]
    /\ disk = << >>
    /\ wrote = [r \in RunIds |-> {}]

\* FileOps(root).write_file(path, content) for every path of paths, by run r
WriteFiles(r, root, paths) ==
    /\ disk' = [k \in {<<root, p>> : p \in paths} |-> r] @@ disk
    /\ wrote' = [wrote EXCEPT ![r] = @ \cup paths]

\* run r's node has run with outcome out, after writing paths under root
RunAdvance(r, out, root, paths) ==
    /\ runs' = [runs EXCEPT ![r] =
                  IF out.exc # "None"
                  THEN [node |-> "FAILED", state |-> @.state]
                  ELSE [node |-> NextNode(@.node, out.state), state |-> out.state]]
    /\ WriteFiles(r, root, paths)
    /\ UNCHANGED <<node, state, error, merged_keys, result_keys, prev, tick, batch_events,
                   lifecycle, hist>>

ConcInterpret(r) ==
    /\ runs[r].node = "spec_interpreter"
    /\ LET s == runs[r].state
       IN  RunAdvance(r, spec_interpreter_node(s,
                             SpecInterpreter_result(model_dump(s), TRUE, << >>)),
                      s.project_root, {})

ConcPlanProject(r) ==
    /\ runs[r].node = "project_planner"
    /\ \E files_dict \in ProjectFilesOutputs :
          LET s == runs[r].state
              result_state == ProjectPlanner_result(model_dump(s), files_dict, << >>)
              out == project_planner_node(s, result_state)
          IN  RunAdvance(r, out, out.state.project_root,
                         DOMAIN DictGet(result_state, "files", << >>))

ConcPlanFiles(r) ==
    /\ runs[r].node = "file_planner"
    /\ \E plan \in ConcPlans :
          LET s == runs[r].state
          IN  RunAdvance(r, file_planner_node(s, FilePlanner_result(model_dump(s), plan, << >>)),
                         s.project_root, {})

ConcGenerateLegacy(r) ==
    /\ runs[r].node = "batch_processor"
    /\ LegacyMode(runs[r].state)
    /\ \E files_dict \in LegacyOutputs :
          LET s == runs[r].state
              result_state == CodeGenerator_result(model_dump(s), files_dict, << >>)
          IN  RunAdvance(r, batch_processor_node(s, files_dict, << >>), s.project_root,
                         DOMAIN DictGet(result_state, "files", << >>))

ConcGenerateBatch(r) ==
    /\ runs[r].node = "batch_processor"
    /\ ~LegacyMode(runs[r].state)
    /\ ready_batch(runs[r].state) # NoBatch
    /\ LET s == runs[r].state
           batch_to_process == ready_batch(s)
           files_dict == [f \in Range(batch_to_process.file_paths) |-> "x"]
           result_state == batch_result_state(s, batch_to_process, files_dict, << >>)
       IN  RunAdvance(r, batch_processor_node(s, files_dict, << >>), s.project_root,
                      DOMAIN new_files_of_batch(DictGet(result_state, "files", << >>),
                                                Range(batch_to_process.file_paths)))

ConcValidate(r) ==
    /\ runs[r].node = "static_validator"
    /\ \E passed \in BOOLEAN :
          LET s == runs[r].state
              errors == IF passed THEN << >> ELSE <<"error[E0425]">>
          IN  RunAdvance(r, static_validator_node(s, StaticValidator_result(passed, errors, << >>)),
                         s.project_root, {})

ConcBuild(r) ==
    /\ runs[r].node = "build_contract"
    /\ \E success \in BOOLEAN :
          LET s == runs[r].state
          IN  RunAdvance(r, build_node(s, Builder_result(success, "target/deploy/program.so")),
                         s.project_root, {})

ConcRepair(r) ==
    /\ runs[r].node = "debugger"
    /\ \E patches \in PatchOutputs :
          LET s == runs[r].state
              result_state == Debugger_result(model_dump(s), patches, << >>)
          IN  RunAdvance(r, debugger_node(s, result_state), s.project_root,
                         DOMAIN DictGet(result_state, "files", << >>))

ConcAbort(r) ==
    /\ runs[r].node = "abort"
    /\ RunAdvance(r, abort_node(runs[r].state), runs[r].state.project_root, {})

\* the event loop runs one node of one of the runs
ConcurrentNext ==
    \E r \in RunIds :
       \/ ConcInterpret(r)
       \/ ConcPlanProject(r)
       \/ ConcPlanFiles(r)
       \/ ConcGenerateLegacy(r)
       \/ ConcGenerateBatch(r)
       \/ ConcValidate(r)
       \/ ConcBuild(r)
       \/ ConcRepair(r)
       \/ ConcAbort(r)

ConcurrentSpec == ConcurrentInit /\ [][ConcurrentNext]_vars

----------------------------------------------------------------------------
(* Properties *)

\* the node `prev` returned normally and the graph has just followed its edge
JustRan(n) == prev = n /\ error = "None" /\ node # n

\* C1: the repair stage is entered at most MAX_RETRIES times in a run: the
\* debugger node is only ever scheduled while retry_count < MAX_RETRIES, and a
\* validate or build stage that reports failure while retry_count >= MAX_RETRIES
\* is followed by abort.
C1_RetryBudget ==
    /\ repairs <= MAX_RETRIES
    /\ (node = "debugger" => state.retry_count < MAX_RETRIES)
    /\ (/\ \/ (JustRan("static_validator") /\ ~state.validation_passed)
           \/ (JustRan("build_contract") /\ ~state.build_success)
        /\ state.retry_count >= MAX_RETRIES)
       => node = "abort"

\* a build failure after the budget is used up has been routed to abort
C1_Witness ==
    /\ JustRan("build_contract")
    /\ ~state.build_success
    /\ state.retry_count >= MAX_RETRIES
    /\ repairs = MAX_RETRIES
    /\ node = "abort"

\* C2: whenever the validator reports that validation passed, the stage after
\* validate is build, and repair is entered from validate only when the
\* validator reported failure.
C2_PassedLeadsToBuild ==
    /\ (JustRan("static_validator") /\ verdict = "passed") => node = "build_contract"
    /\ (JustRan("static_validator") /\ node = "debugger") => verdict = "failed"

\* the validator reported success and the graph went to the debugger
C2_Witness ==
    /\ JustRan("static_validator")
    /\ verdict = "passed"
    /\ ~state.validation_passed
    /\ node = "debugger"

\* C3: the mapping _safe_merge returns holds no control field, also when the
\* agent result it merged carried control keys.
C3_MergeDropsControlFields == merged_keys \cap control_fields = {}

\* a result that carried every control key has been merged into a non-empty mapping
C3_Witness == result_keys = control_fields /\ merged_keys # {}

\* the state a stage returns keeps these control fields of the state it ran from
SameControl(o1, o2) ==
    /\ o1.exc = o2.exc
    /\ o1.state.retry_count = o2.state.retry_count
    /\ o1.state.project_root = o2.state.project_root
    /\ o1.state.user_spec = o2.state.user_spec

\* C4: for every stage, two results that differ only in the values under control
\* keys give successor states with the same retry_count, project_root and
\* user_spec.
C4_ControlFieldsNotFromResult ==
    \A adv1 \in AdvResults, adv2 \in AdvResults :
        LET dump == model_dump(state)
        IN  /\ node = "spec_interpreter" =>
                 \A parsed \in BOOLEAN :
                    SameControl(
                        spec_interpreter_node(state, SpecInterpreter_result(dump, parsed, adv1)),
                        spec_interpreter_node(state, SpecInterpreter_result(dump, parsed, adv2)))
            /\ node = "project_planner" =>
                 \A files_dict \in ProjectFilesOutputs :
                    SameControl(
                        project_planner_node(state, ProjectPlanner_result(dump, files_dict, adv1)),
                        project_planner_node(state, ProjectPlanner_result(dump, files_dict, adv2)))
            /\ node = "file_planner" =>
                 \A plan \in Plans \cup {NonePlan} :
                    SameControl(
                        file_planner_node(state, FilePlanner_result(dump, plan, adv1)),
                        file_planner_node(state, FilePlanner_result(dump, plan, adv2)))
            /\ (node = "batch_processor" /\ LegacyMode(state)) =>
                 \A files_dict \in LegacyOutputs :
                    SameControl(batch_processor_node(state, files_dict, adv1),
                                batch_processor_node(state, files_dict, adv2))
            /\ (node = "batch_processor" /\ ~LegacyMode(state)) =>
                 \A files_dict \in BatchOutputs(ready_batch(state)) :
                    SameControl(batch_processor_node(state, files_dict, adv1),
                                batch_processor_node(state, files_dict, adv2))
            /\ node = "static_validator" =>
                 \A passed \in BOOLEAN :
                    SameControl(
                        static_validator_node(state, StaticValidator_result(passed, << >>, adv1)),
                        static_validator_node(state, StaticValidator_result(passed, << >>, adv2)))
            /\ node = "debugger" =>
                 \A patches \in PatchOutputs :
                    SameControl(
                        debugger_node(state, Debugger_result(dump, patches, adv1)),
                        debugger_node(state, Debugger_result(dump, patches, adv2)))

\* the same, for every stage but the first
C4_HoldsAfterInterpret == node # "spec_interpreter" => C4_ControlFieldsNotFromResult

\* the first stage has returned a state whose project_root is the one its
\* result carried
C4_Witness ==
    /\ JustRan("spec_interpreter")
    /\ state.project_root = AdvValue.project_root

\* the graph is about to run batch_processor_node with a plan
InPlanLoop == node = "batch_processor" /\ ~LegacyMode(state)

completed_paths == DOMAIN state.generated_files
pending_paths == DOMAIN state.pending_files
PlanBatches == state.generation_plan.batches

\* the batches of the plan that `batch` names as dependencies
DependencyBatches(batch) ==
    {PlanBatches[i] : i \in {j \in DOMAIN PlanBatches :
                                PlanBatches[j].batch_id \in batch.dependencies}}

\* C5: the batch the scan selects never has unmet dependencies: every file path
\* of every batch it depends on is a key of generated_files when it is selected.
C5_SelectedBatchHasDepsMet ==
    (InPlanLoop /\ ready_batch(state) # NoBatch) =>
        \A dep \in DependencyBatches(ready_batch(state)) :
            Range(dep.file_paths) \subseteq completed_paths

\* batch C, which depends on A and B, has been selected and processed after them
C5_Witness ==
    /\ ~LegacyMode(state)
    /\ order = <<"A", "B", "C">>
    /\ FindBatch(PlanBatches, "C").dependencies = {"A", "B"}

\* generation_order read step by step, left to right
RECURSIVE Flatten(_)
Flatten(steps) == IF steps = << >> THEN << >> ELSE Head(steps) \o Flatten(Tail(steps))

\* the batch id at position i of the flattened order names a ready batch
ReadyAt(flat, i) ==
    LET batch == FindBatch(PlanBatches, flat[i])
    IN  /\ batch # NoBatch
        /\ \A dep \in DependencyBatches(batch) : Range(dep.file_paths) \subseteq completed_paths
        /\ Range(batch.file_paths) \cap pending_paths # {}

\* the plan of the scenario: A and B without dependencies, C depending on both,
\* steps [[A, B], [C]]
ScenarioPlan ==
    GenerationPlan(DisjointLayout, {<<"C", "A">>, <<"C", "B">>}, << <<"A", "B">>, <<"C">> >>)

IsPrefix(s, r) == Len(s) <= Len(r) /\ \A i \in DOMAIN s : s[i] = r[i]

\* C6: the scan selects the first ready batch in generation order (earlier steps
\* first, left to right within a step), and none when none is ready; under the
\* scenario plan the batches are processed in the order A, B, C, and C only once
\* every file of A and B is generated.
C6_FirstReadyInOrder ==
    /\ InPlanLoop =>
          LET flat == Flatten(state.generation_plan.generation_order)
              ready == {i \in DOMAIN flat : ReadyAt(flat, i)}
          IN  IF ready = {} THEN ready_batch(state) = NoBatch
              ELSE ready_batch(state) =
                      FindBatch(PlanBatches, flat[CHOOSE i \in ready : \A j \in ready : i <= j])
    /\ state.generation_plan = ScenarioPlan =>
          /\ IsPrefix(order, <<"A", "B", "C">>)
          /\ "C" \in Range(order) => {"a", "a2", "b"} \subseteq completed_paths

\* the scenario plan has been driven through all three batches
C6_Witness ==
    /\ state.generation_plan = ScenarioPlan
    /\ order = <<"A", "B", "C">>
    /\ pending_paths = {}

\* the batch ids of the adopted plan
PlanBatchIds == {PlanBatches[i].batch_id : i \in DOMAIN PlanBatches}

\* the generate loop has just handed over to validation, with a plan
LoopExited == ~LegacyMode(state) /\ JustRan("batch_processor") /\ node = "static_validator"

\* C7: driving the generate loop until pending_files is empty processes every
\* batch of the plan exactly once, for every plan.
C7_EveryBatchExactlyOnce ==
    LoopExited => (~reprocessed /\ Range(order) = PlanBatchIds)

\* every batch declares at least one path and no path is declared twice
WellFormedPaths(batches) ==
    /\ \A i \in DOMAIN batches : batches[i].file_paths # << >>
    /\ \A i \in DOMAIN batches, j \in DOMAIN batches :
          i # j => Range(batches[i].file_paths) \cap Range(batches[j].file_paths) = {}

\* C7 (amended): for every plan whose batches declare non-empty, pairwise
\* disjoint file paths, as long as every batch step's producer output holds
\* every path the processed batch declares, no batch is processed twice, and
\* when the loop exits with pending_files empty every batch has been processed.
C7_ExactlyOnceWhenOutputsComplete ==
    (~LegacyMode(state) /\ WellFormedPaths(PlanBatches) /\ ~partial) =>
        /\ ~reprocessed
        /\ LoopExited => (Range(order) = PlanBatchIds /\ pending_paths = {})

\* a well-formed plan has been driven to the end by complete producer outputs
C7_Witness ==
    /\ LoopExited
    /\ WellFormedPaths(PlanBatches)
    /\ ~partial
    /\ Len(order) = 3

\* C8: every run terminates: it reaches END, aborted, or a propagated exception.
C8_RunTerminates == <>(node \in Terminal)

\* a batch step has run on a batch already processed and returned the state it
\* started from
C8_Witness ==
    /\ node = "batch_processor"
    /\ prev = "batch_processor"
    /\ reprocessed
    /\ pending_paths # {}
    /\ ready_batch(state) # NoBatch

\* pending files remain and the scan finds no ready batch
Stalled == InPlanLoop /\ pending_paths # {} /\ ready_batch(state) = NoBatch

C10_LoopExitsOnlyWhenPendingEmpty ==
    [][(InPlanLoop /\ node' # "FAILED") =>
          /\ node' = "static_validator" => DOMAIN state'.pending_files = {}
          /\ DOMAIN state'.pending_files # {} => node' = "batch_processor"]_vars

\* the loop was re-entered after a batch step and later left with nothing pending
C10_Witness ==
    /\ LoopExited
    /\ Len(order) >= 2
    /\ pending_paths = {}

\* a batch step that returned normally: the batch it processed was the one the
\* scan selects in the state it ran from
BatchStepTaken == InPlanLoop /\ ready_batch(state) # NoBatch /\ node' # "FAILED"

\* the paths the batch step moves: declared by the processed batch and present
\* under "files" in the producer's result
MovedPaths == Range(ready_batch(state).file_paths) \cap produced'

\* C11: a batch step moves from pending_files to generated_files exactly the
\* paths that the processed batch declares and the producer's result holds, with
\* the content the result gives; a returned path the batch did not declare
\* neither enters generated_files nor leaves pending_files.
C11_BatchMovesDeclaredProducedPaths ==
    [][BatchStepTaken =>
          /\ DOMAIN state'.generated_files = completed_paths \cup MovedPaths
          /\ DOMAIN state'.pending_files = pending_paths \ MovedPaths
          /\ \A p \in MovedPaths : state'.generated_files[p] = state'.files[p]
          /\ \A p \in produced' \ Range(ready_batch(state).file_paths) :
                /\ p \in DOMAIN state'.generated_files => p \in completed_paths
                /\ p \in pending_paths => p \in DOMAIN state'.pending_files]_vars

\* batch A has been processed with a result that also held "b", a path of
\* batch B: "b" is still pending and not generated
C11_Witness ==
    /\ prev = "batch_processor"
    /\ error = "None"
    /\ order = <<"A">>
    /\ "b" \in produced
    /\ "b" \in pending_paths
    /\ "b" \notin completed_paths
    /\ "a" \in completed_paths

\* C12: the ledger never regresses: a batch step removes no key from
\* generated_files and adds no key to pending_files, and no later stage of the
\* run does either.
C12_LedgerNeverRegresses ==
    [][(node # "file_planner") =>
          /\ completed_paths \subseteq DOMAIN state'.generated_files
          /\ DOMAIN state'.pending_files \subseteq pending_paths]_vars

\* a second batch step has extended a ledger that already held files
C12_Witness ==
    /\ prev = "batch_processor"
    /\ error = "None"
    /\ Len(order) >= 2
    /\ Cardinality(completed_paths) >= 2
    /\ pending_paths # {}

\* the ledger of a state
Ledger(s) == <<s.generated_files, s.pending_files, s.file_progress>>

\* C13: recording a batch result is idempotent: the ledger update applied to
\* its own outcome, with the same batch and the same producer result, gives the
\* generated_files, pending_files and file_progress it gave the first time.
C13_RecordBatchIdempotent ==
    (InPlanLoop /\ ready_batch(state) # NoBatch) =>
        \A files_dict \in BatchOutputs(ready_batch(state)), adv \in AdvResults :
            LET batch == ready_batch(state)
                result_state == batch_result_state(state, batch, files_dict, adv)
                once == process_batch(state, batch, result_state)
                twice == process_batch(once.state, batch, result_state)
            IN  /\ once.exc = "None"
                /\ twice.exc = "None"
                /\ Ledger(twice.state) = Ledger(once.state)

\* a batch is ready whose recording changes a ledger that already holds files
C13_Witness ==
    /\ InPlanLoop
    /\ ready_batch(state) # NoBatch
    /\ completed_paths # {}
    /\ \E files_dict \in BatchOutputs(ready_batch(state)) :
          LET batch == ready_batch(state)
              once == process_batch(state, batch,
                                    batch_result_state(state, batch, files_dict, << >>))
          IN  /\ Ledger(once.state) # Ledger(state)
              /\ Ledger(process_batch(once.state, batch,
                                       batch_result_state(state, batch, files_dict, << >>)).state)
                     = Ledger(once.state)

\* C14: after every repair stage the next stage executed is build, whatever the
\* repair result holds (a repair that raises ends the run), and the validate
\* stage is never entered once a repair has run.
C14_RepairLeadsToBuild ==
    [][/\ node = "debugger" => node' \in {"build_contract", "FAILED"}
       /\ (node = "debugger" /\ error' = "None") => node' = "build_contract"
       /\ repairs' > 0 => node' # "static_validator"]_vars

\* a repair that produced no patch and reported failure has been followed by build
C14_Witness ==
    /\ JustRan("debugger")
    /\ state.error_message = "Debugger failed"
    /\ node = "build_contract"

\* the repair stages that have returned so far: the ones entered, less the one
\* that raised and ended the run
CompletedRepairs ==
    IF prev = "debugger" /\ error # "None" THEN repairs - 1 ELSE repairs

\* C15: in every reachable state retry_count equals the number of repair
\* stages completed so far: a completed debugger_node adds exactly 1, every
\* other stage leaves it unchanged, and a run without repair has retry_count 0.
C15_RetryCountCountsRepairs ==
    /\ state.retry_count = CompletedRepairs
    /\ repairs = 0 => state.retry_count = 0

\* a run has ended after one completed repair, with retry_count 1
C15_Witness ==
    /\ node = "END"
    /\ repairs = 1
    /\ state.retry_count = 1

\* the run has ended aborted and its validation pass reported failure
AbortedAfterFailedValidation == node = "ABORTED" /\ verdict = "failed"

FirstBuildFailedAfterPassedValidation ==
    /\ verdict = "passed"
    /\ prev = "build_contract"
    /\ error = "None"
    /\ builds = 1
    /\ ~state.build_success

\* C17: a run in which validation passes and the first build fails goes on to
\* the repair stage with its retry budget untouched (so that a successful build
\* after the repair ends the run done with retry_count 1 and final_artifact
\* populated).
C17_FirstBuildFailureIsRepaired ==
    FirstBuildFailedAfterPassedValidation =>
        /\ node = "debugger"
        /\ state.retry_count = 0

\* validation passed, the only build of the run failed, and the run is aborted
\* with the retry already consumed before that build
C17_Witness ==
    /\ FirstBuildFailedAfterPassedValidation
    /\ node = "abort"
    /\ repairs = 1
    /\ state.retry_count = 1

\* C18: an exception raised inside a stage is never retried.  The step in which
\* a stage raises ends the run failed with the exception as its error, enters
\* no repair stage and leaves the state, retry_count included, as it was; and
\* once a run has failed no stage executes.
C18_ExceptionEndsRun ==
    [][/\ (raised' \/ error' # "None") =>
             /\ node' = "FAILED"
             /\ error' # "None"
             /\ state' = state
             /\ state'.retry_count = state.retry_count
       /\ ~raised
       /\ error = "None"]_vars

\* the repair producer raised on its first call: the run has failed with the
\* retry budget untouched
C18_Witness ==
    /\ raised
    /\ node = "FAILED"
    /\ prev = "debugger"
    /\ error = "CollaboratorFailure"
    /\ repairs = 1
    /\ state.retry_count = 0

\* the stages whose failures are not eligible for repair
UnrepairableStages == {"spec_interpreter", "project_planner", "file_planner", "batch_processor"}

\* the stage that ran in this step returned, and its result carried
\* error_message in place of content
ReturnedNoUsableOutput ==
    /\ node \in UnrepairableStages
    /\ error' = "None"
    /\ state.error_message = "None"
    /\ state'.error_message # "None"

\* C19: when interpret, plan_project, plan_files or generate_batch fails by
\* returning no usable output (its result carries error_message instead of
\* content), the run terminates: no later stage is executed.
C19_UnusableOutputEndsRun ==
    [][ReturnedNoUsableOutput => node' \in Terminal]_vars

\* interpret could not parse the specification, and plan_project is about to run
C19_Witness ==
    /\ prev = "spec_interpreter"
    /\ error = "None"
    /\ state.error_message = "Failed to parse spec interpretation"
    /\ state.interpreted_spec = "None"
    /\ node = "project_planner"

\* C20: a failure of the observer callback never changes the run outcome: no
\* run ends failed with the observer's exception as its error.
C20_ObserverFailureIgnored ==
    ~(node = "FAILED" /\ error = "ObserverFailure")

\* the observer raised on the validate stage's notification and the run, which
\* had generated its files, ended failed there
C20_Witness ==
    /\ node = "FAILED"
    /\ error = "ObserverFailure"
    /\ prev = "static_validator"
    /\ state.on_event = "cb"
    /\ ~raised
    /\ validations = 0

\* C21: abort_node returns its input state unchanged, and a run that has ended
\* aborted carries the diagnostics of its latest checks and the retries it
\* consumed: validation_errors is the list the latest validation pass reported,
\* build_logs is the output of the failed build, and retry_count is the number
\* of repairs performed.
C21_AbortedCarriesDiagnostics ==
    [][/\ node = "abort" => (state' = state /\ node' = "ABORTED")
       /\ node' = "ABORTED" =>
             /\ state'.validation_errors = reported_errors
             /\ builds >= 1 =>
                   \E artifact \in Artifacts :
                      state'.build_logs = Builder_result(FALSE, artifact).output
             /\ state'.retry_count = repairs]_vars

\* a run aborted after a failed validation, one repair and a failed build
C21_Witness ==
    /\ node = "ABORTED"
    /\ prev = "abort"
    /\ state.validation_errors = <<"error[E0425]">>
    /\ state.build_logs = "anchor build output"
    /\ state.retry_count = 1
    /\ repairs = 1
    /\ builds = 1

\* contents pending_files may have
PendingSamples == {<< >>, [f \in {"a"} |-> ""], [f \in {"a", "lib.rs"} |-> ""]}

\* the stages after the generate stage, and the two normal ends of a run
AfterGenerate == {"static_validator", "build_contract", "debugger", "abort", "END", "ABORTED"}

\* C22: in legacy mode (no generation plan adopted) a generate stage that
\* returns has called the content producer once and the next stage is validate;
\* over the whole run the producer is called exactly once and the ready-batch
\* scan is never executed; and has_more_batches answers "done" for a state
\* without a plan whatever pending_files contains.
C22_LegacyGeneratesOnce ==
    [][/\ (node = "batch_processor" /\ LegacyMode(state) /\ error' = "None") =>
             /\ node' = "static_validator"
             /\ legacy_calls' = 1
       /\ LegacyMode(state') =>
             /\ ~scanned'
             /\ legacy_calls' <= 1
             /\ node' \in AfterGenerate => legacy_calls' = 1
             /\ \A pf \in PendingSamples :
                   has_more_batches([state' EXCEPT !.generation_plan = NonePlan,
                                                   !.pending_files = pf]) = "done"]_vars

\* a legacy run whose single producer call returned the project's files and
\* which is about to validate
C22_Witness ==
    /\ prev = "batch_processor"
    /\ node = "static_validator"
    /\ LegacyMode(state)
    /\ legacy_calls = 1
    /\ ~scanned
    /\ "lib.rs" \in DOMAIN state.files

\* the ids the batch named id declares as its dependencies
DependencyIds(plan, id) ==
    UNION {plan.batches[i].dependencies :
             i \in {j \in DOMAIN plan.batches : plan.batches[j].batch_id = id}}

\* the ids reachable from the set S in at most k dependency steps
RECURSIVE DependencyClosure(_, _, _)
DependencyClosure(plan, S, k) ==
    IF k = 0 THEN S
    ELSE DependencyClosure(plan, S \cup UNION {DependencyIds(plan, id) : id \in S}, k - 1)

\* some batch's dependency closure includes itself
CyclicPlan(plan) ==
    \E i \in DOMAIN plan.batches :
       plan.batches[i].batch_id \in
           DependencyClosure(plan, plan.batches[i].dependencies, Len(plan.batches))

\* C23: a plan whose batch dependency relation is cyclic is rejected when it is
\* adopted: no state of a run holds such a plan (and so no batch of it is ever
\* generated).
C23_CyclicPlanRejected ==
    ~CyclicPlan(state.generation_plan)

\* a plan in which A and B depend on each other was adopted and its batch C
\* has been generated
C23_Witness ==
    /\ CyclicPlan(state.generation_plan)
    /\ "A" \in DependencyIds(state.generation_plan, "B")
    /\ "B" \in DependencyIds(state.generation_plan, "A")
    /\ order = <<"C">>
    /\ "c" \in completed_paths
    /\ error = "None"

\* C24: two runs executing concurrently are independent.  A step changes the
\* pipeline state (ledger included) of at most one run, and it leaves every
\* file that another run wrote under that run's project root as that run
\* wrote it.
C24_RunsIndependent ==
    [][/\ Cardinality({q \in RunIds : runs'[q] # runs[q]}) <= 1
       /\ \A q \in RunIds :
             runs'[q] = runs[q] =>
                \A p \in wrote[q] :
                   disk'[<<runs[q].state.project_root, p>>] =
                       disk[<<runs[q].state.project_root, p>>]]_vars

\* both runs were started without a project name: the file run 1 wrote under
\* its project root now holds what run 2 wrote
C24_Witness ==
    /\ runs[1].state.project_root = "contracts/my_contract"
    /\ runs[2].state.project_root = "contracts/my_contract"
    /\ "a" \in wrote[1]
    /\ disk[<<"contracts/my_contract", "a">>] = 2
    /\ runs[1].node = "batch_processor"

\* the events of one batch step: the batch started and then either ended or the
\* stage failed
Bracketed(events) ==
    \/ events = << >>
    \/ /\ Len(events) \in {2, 3}
       /\ events[1][1] = "batch:start"
       /\ \A i \in 2..Len(events) :
             /\ events[i][1] \in {"batch:end", "agent:Code Generator:failed"}
             /\ events[i][2] = events[1][2]
       /\ Len(events) = 3 => (events[2][1] = "batch:end" /\ error # "None")

\* the ledger is that of whole batch steps: no path is both generated and
\* pending, and the progress count is that of generated_files
LedgerWhole(s) ==
    /\ DOMAIN s.generated_files \cap DOMAIN s.pending_files = {}
    /\ s.file_progress[1] = Cardinality(DOMAIN s.generated_files)

\* C25: at most one batch is in flight and its ledger update is atomic.  The
\* events of every batch step are batch:start for one batch followed by that
\* batch's batch:end or by the stage's failure, a step processes at most one
\* batch, and every state the ready-batch scan reads holds a ledger to which
\* each batch step has been applied as a whole.
C25_OneBatchInFlightAtomicLedger ==
    [][/\ Bracketed(batch_events')
       /\ Len(order') <= Len(order) + 1
       /\ (node' = "batch_processor" /\ ~LegacyMode(state')) => LedgerWhole(state')]_vars

\* a run with an observer: batch A has started and ended, its paths are
\* generated and no longer pending, and the scan is about to read the ledger
C25_Witness ==
    /\ batch_events = << <<"batch:start", "A">>, <<"batch:end", "A">> >>
    /\ node = "batch_processor"
    /\ state.on_event = "cb"
    /\ {"a", "a2"} \subseteq DOMAIN state.generated_files
    /\ {"a", "a2"} \cap DOMAIN state.pending_files = {}
    /\ DOMAIN state.pending_files # {}

\* agent results the nodes may pass to _safe_merge together with the state s:
\* the repair, validation and batch results, and the build node's empty dict
MergeSamples(s) ==
    {Debugger_result(model_dump(s), patches, adv) : patches \in PatchOutputs, adv \in AdvResults}
    \cup {StaticValidator_result(FALSE, errors, adv) :
             errors \in ValidationErrorLists, adv \in AdvResults}
    \cup {batch_result_state(s, NoBatch, files_dict, << >>) : files_dict \in LegacyOutputs}
    \cup {<< >>}

\* C26: for every key outside the protected set, _safe_merge returns the agent
\* result's value when the result has that key and otherwise the state's value,
\* and it returns no key that is in neither input.
C26_MergeOverlaysResult ==
    \A agent_result \in MergeSamples(state) :
       LET merged == _safe_merge(state, agent_result)
       IN  /\ DOMAIN merged \subseteq (DOMAIN model_dump(state) \cup DOMAIN agent_result)
           /\ \A key \in (DOMAIN model_dump(state) \cup DOMAIN agent_result) \ control_fields :
                 /\ key \in DOMAIN merged
                 /\ merged[key] = IF key \in DOMAIN agent_result THEN agent_result[key]
                                  ELSE model_dump(state)[key]

\* the repair stage is about to merge a result whose files differ from the
\* state's: the merge takes files from the result, validation_errors
\* from the state, and retry_count from neither
C26_Witness ==
    /\ node = "debugger"
    /\ state.validation_errors # << >>
    /\ "a" \in DOMAIN state.files
    /\ LET agent_result == Debugger_result(model_dump(state), [f \in {"a"} |-> "fix"], AdvValue)
           merged == _safe_merge(state, agent_result)
       IN  /\ agent_result \in MergeSamples(state)
           /\ state.files["a"] # "fix"
           /\ merged.files["a"] = "fix"
           /\ merged.validation_errors = state.validation_errors
           /\ "retry_count" \in DOMAIN agent_result
           /\ "retry_count" \notin DOMAIN merged

\* C27: when batch_processor_node finds no ready batch it treats the plan as
\* finished: the state it returns is the input state with pending_files
\* emptied, and the workflow moves to validation.
C27_NoReadyBatchMovesToValidation ==
    [][(InPlanLoop /\ ready_batch(state) = NoBatch) =>
          /\ error' = "None"
          /\ state' = [state EXCEPT !.pending_files = << >>]
          /\ has_more_batches(state') = "done"
          /\ node' = "static_validator"]_vars

\* batch C was generated, nothing else is ready, and the no-ready-batch branch
\* has ended the run with a TypeError, the pending paths still in the state
C27_Witness ==
    /\ prev = "batch_processor"
    /\ node = "FAILED"
    /\ error = "TypeError"
    /\ order = <<"C">>
    /\ ready_batch(state) = NoBatch
    /\ DOMAIN state.pending_files # {}
    /\ validations = 0

\* C28: a run ends done only immediately after a build stage that reported
\* success, and it enters the abort stage only immediately after a validate or
\* build stage that reported failure with retry_count >= MAX_RETRIES;
\* build_success is true in every done state and false in every aborted state.
C28_EndsFollowTheirChecks ==
    [][/\ node' = "END" =>
             /\ node = "build_contract"
             /\ state'.build_success
       /\ node' = "abort" =>
             /\ \/ node = "build_contract" /\ ~state'.build_success
                \/ node = "static_validator" /\ verdict' = "failed"
             /\ state'.retry_count >= MAX_RETRIES
       /\ node' = "ABORTED" =>
             /\ node = "abort"
             /\ ~state'.build_success]_vars

\* a run has ended done right after a successful build
C28_Witness ==
    /\ node = "END"
    /\ prev = "build_contract"
    /\ state.build_success
    /\ state.final_artifact = "target/deploy/program.so"
    /\ builds = 1

\* C29: 0 <= retry_count <= MAX_RETRIES in every reachable state; the validate
\* and the build edge both grant a repair exactly when their check failed and
\* this one counter is below MAX_RETRIES; and every aborted state has
\* retry_count = MAX_RETRIES.
C29_SingleBoundedRetryCounter ==
    /\ state.retry_count \in 0..MAX_RETRIES
    /\ should_proceed_to_build(state) = "debugger" <=>
          (~state.validation_passed /\ state.retry_count < MAX_RETRIES)
    /\ should_proceed_to_end(state) = "debugger" <=>
          (~state.build_success /\ state.retry_count < MAX_RETRIES)
    /\ node \in {"abort", "ABORTED"} => state.retry_count = MAX_RETRIES

\* a run whose validation failed was repaired once, its build failed, and it
\* was aborted with the counter at MAX_RETRIES
C29_Witness ==
    /\ node = "ABORTED"
    /\ verdict = "failed"
    /\ builds = 1
    /\ ~state.build_success
    /\ state.retry_count = MAX_RETRIES
    /\ should_proceed_to_end(state) = "abort"

\* the file paths the batches of the adopted plan declare
PlannedPaths ==
    UNION {Range(state.generation_plan.batches[i].file_paths) :
             i \in DOMAIN state.generation_plan.batches}

\* C30: from plan adoption until the generate loop exits, pending_files and
\* generated_files partition the planned paths: their key sets are disjoint
\* and their union is the set of file paths the plan's batches declare; at
\* adoption every planned path is pending and none is generated.
C30_LedgerPartitionsPlannedPaths ==
    /\ InPlanLoop =>
          /\ pending_paths \cap completed_paths = {}
          /\ pending_paths \cup completed_paths = PlannedPaths
    /\ (InPlanLoop /\ prev = "file_planner") =>
          /\ pending_paths = PlannedPaths
          /\ completed_paths = {}

\* in the loop of a plan with three batches, A's paths are generated and B's
\* and C's are pending
C30_Witness ==
    /\ InPlanLoop
    /\ prev = "batch_processor"
    /\ PlannedPaths = {"a", "a2", "b", "c"}
    /\ completed_paths = {"a", "a2"}
    /\ pending_paths = {"b", "c"}

\* C31: after every batch step file_progress is (number of keys of
\* generated_files, total), total being the sum of the batches' file-path
\* counts; the first component never exceeds the second, and the two are equal
\* when the generate loop exits with pending_files empty.
C31_ProgressCountsGeneratedFiles ==
    [][BatchStepTaken =>
          /\ state'.file_progress =
                 <<Cardinality(DOMAIN state'.generated_files), TotalFiles(PlanBatches, 1)>>
          /\ state'.file_progress[1] <= state'.file_progress[2]
          /\ (node' = "static_validator" /\ DOMAIN state'.pending_files = {}) =>
                 state'.file_progress[1] = state'.file_progress[2]]_vars

\* a plan in which A and B both declare path a: the loop has exited with
\* nothing pending and the progress stands at 2 of 3
C31_Witness ==
    /\ LoopExited
    /\ pending_paths = {}
    /\ completed_paths = {"a", "c"}
    /\ state.file_progress = <<2, 3>>
    /\ TotalFiles(PlanBatches, 1) = 3

\* every batch is listed in generation_order, dependencies are acyclic and name
\* batches of the plan, and file paths are non-empty and unique
WellFormedPlan(plan) ==
    LET ids == {plan.batches[i].batch_id : i \in DOMAIN plan.batches}
    IN  /\ plan.batches # << >>
        /\ ids \subseteq Range(Flatten(plan.generation_order))
        /\ \A i \in DOMAIN plan.batches : plan.batches[i].dependencies \subseteq ids
        /\ ~CyclicPlan(plan)
        /\ WellFormedPaths(plan.batches)

\* C32: the generate loop completes for every well-formed plan, whether or not
\* generation_order is a topological layering: unless the producer raises or
\* returns a batch without one of its declared files (or the observer raises),
\* pending_files eventually becomes empty and the workflow reaches validate.
C32_WellFormedPlanCompletes ==
    (InPlanLoop /\ WellFormedPlan(state.generation_plan))
        ~> \/ LoopExited /\ pending_paths = {}
           \/ partial
           \/ raised
           \/ error = "ObserverFailure"

\* a plan whose order lists C before the batches it depends on has been driven
\* to the end: A and B were generated first, then C
C32_Witness ==
    /\ LoopExited
    /\ pending_paths = {}
    /\ ~partial
    /\ WellFormedPlan(state.generation_plan)
    /\ state.generation_plan.generation_order = << <<"C">>, <<"A", "B">> >>
    /\ DependencyIds(state.generation_plan, "C") = {"A", "B"}
    /\ order = <<"A", "B", "C">>

\* the batch declares a dependency id that names no batch of the plan, and the
\* batches its other dependency ids name are generated
OnlyUnknownUnmet(batch) ==
    /\ \E dep_id \in batch.dependencies : FindBatch(PlanBatches, dep_id) = NoBatch
    /\ \A dep \in DependencyBatches(batch) : Range(dep.file_paths) \subseteq completed_paths

\* C33: a dependency id that names no batch is treated as satisfied.  A listed
\* batch whose only unmet dependencies are unknown ids passes the dependency
\* check, so once it has a pending path the scan finds a ready batch, and it
\* selects this one when the order has no ready batch before it.
C33_UnknownDependencySatisfied ==
    InPlanLoop =>
        \A i \in DOMAIN Flatten(state.generation_plan.generation_order) :
           LET flat == Flatten(state.generation_plan.generation_order)
               batch == FindBatch(PlanBatches, flat[i])
           IN  (batch # NoBatch /\ OnlyUnknownUnmet(batch)) =>
                  /\ deps_satisfied(PlanBatches, batch, completed_paths)
                  /\ has_pending(batch, pending_paths) =>
                        /\ ready_batch(state) # NoBatch
                        /\ (\A j \in 1..(i - 1) : ~ReadyAt(flat, j)) => ready_batch(state) = batch

\* batch C depends only on an id that names no batch and comes first in the
\* order: the scan selects it with nothing generated yet
C33_Witness ==
    /\ InPlanLoop
    /\ completed_paths = {}
    /\ DependencyIds(state.generation_plan, "C") = {UnknownId}
    /\ FindBatch(PlanBatches, UnknownId) = NoBatch
    /\ state.generation_plan.generation_order = << <<"C">>, <<"A", "B">> >>
    /\ ready_batch(state).batch_id = "C"

\* the batch ids generation_order lists
ListedIds == Range(Flatten(state.generation_plan.generation_order))

\* the batches of the plan that generation_order does not list
UnlistedBatches == {b \in Range(PlanBatches) : b.batch_id \notin ListedIds}

\* the paths the listed batches declare
ListedPaths ==
    UNION {Range(b.file_paths) : b \in Range(PlanBatches) \ UnlistedBatches}

C35_NoPatchesStillRepairToBuild ==
    [][(node = "debugger" /\ error' = "None" /\ state'.error_message = "Debugger failed") =>
          /\ node' = "build_contract"
          /\ state'.retry_count = state.retry_count + 1]_vars

C35_Witness ==
    /\ prev = "debugger"
    /\ node = "build_contract"
    /\ state.error_message = "Debugger failed"
    /\ state.retry_count = 1
    /\ repairs = 1

\* the stages that run after the project planner
AfterProjectPlanner ==
    {"file_planner", "batch_processor", "static_validator", "build_contract",
     "debugger", "abort"}

\* C36: user_spec is the same in every state of a run, and no stage after the
\* project planner changes project_root.
C36_UserSpecAndProjectRootKept ==
    [][/\ state'.user_spec = state.user_spec
       /\ node \in AfterProjectPlanner => state'.project_root = state.project_root]_vars

\* a run that went through generate, validate and repair with the root the
\* project planner set, although the repair result carried foreign values
\* under every control key
C36_Witness ==
    /\ prev = "debugger"
    /\ node = "build_contract"
    /\ repairs = 1
    /\ result_keys = control_fields
    /\ state.project_root = "contracts/my_contract"
    /\ state.user_spec \in UserSpecs

\* a call of batch_processor_node that reached its write loop: it returned,
\* or the observer raised in it
BatchWrote ==
    /\ InPlanLoop
    /\ ready_batch(state) # NoBatch
    /\ (node' # "FAILED" \/ error' = "ObserverFailure")

\* C37: a batch step writes a path only if the path was pending before the
\* step and is generated, and no longer pending, after it; a path therefore
\* is written at most once over the generate loop.
C37_WrittenOnceWhenMoved ==
    [][BatchWrote =>
          /\ written' \subseteq pending_paths
          /\ written' \subseteq DOMAIN state'.generated_files
          /\ written' \cap DOMAIN state'.pending_files = {}]_vars

\* batch A was processed twice and its latest step wrote both of its paths
C37_Witness ==
    /\ InPlanLoop
    /\ prev = "batch_processor"
    /\ order = <<"A">>
    /\ reprocessed
    /\ written = {"a", "a2"}
    /\ completed_paths = {"a", "a2"}

\* C38: when a run is over, every start event delivered to the observer has
\* been answered by exactly one end (or verdict) or failed event of its
\* stage, and workflow:start by exactly one of workflow:end and workflow:failed.
C38_LifecycleComplete ==
    (node \in Terminal /\ error # "ObserverFailure") =>
        /\ lifecycle.open = {}
        /\ ~lifecycle.extra

\* the validator raised in a run without a plan: validation:start is
\* unanswered although the run is over and workflow:failed was delivered
C38_Witness ==
    /\ node = "FAILED"
    /\ error = "CollaboratorFailure"
    /\ prev = "static_validator"
    /\ lifecycle.open = {"validation"}

====
